---------------------------- MODULE Spec2Model ----------------------------
(***************************************************************************)
(* A model of AiQo (src/App.tsx): the unit calculators, the meal plan      *)
(* generator, the Day record and its lifecycle (startup load-or-create,    *)
(* mutation, persistence, streak evaluation) and the recommendation        *)
(* engine (haloScore, pickNudge).                                          *)
(*                                                                         *)
(* Numbers.  The program computes in IEEE doubles.  Every quantity of the  *)
(* model is an integer or a ratio of integers, and each comparison or      *)
(* rounding of the source is carried out exactly on the numerators         *)
(* (x >= t * 0.9 is 10 * x >= 9 * t; Math.round(x) is floor(x + 1/2)).     *)
(* Non-finite numbers (a profile field typed as "Infinity") are outside    *)
(* the modelled input domain.                                              *)
(***************************************************************************)
EXTENDS Integers, Sequences, FiniteSets, TLC

(***************************************************************************)
(* Bounds of the model (not program constants).                            *)
(***************************************************************************)
MaxDate == 2        \* calendar dates are 1..MaxDate
MaxOps == 1         \* Day mutations (button presses) in one run
MaxStreak == 2      \* the streak is not raised above this
MaxInFlight == 1    \* store writes issued and not yet applied
MaxSecs == 3        \* a countdown is started with at most this many seconds
MaxTimers == 3      \* setInterval calls in one run
MaxSwitches == 3    \* presses of the bottom navigation in one run
MaxMins == 130      \* formatTime is given 0..MaxMins minutes
MaxKcal == 2500     \* generateMealsForDay is given targets 1..MaxKcal

Dates == 1..MaxDate

(***************************************************************************)
(* Utils & calculators                                                     *)
(***************************************************************************)
Max2(a, b) == IF a >= b THEN a ELSE b
Min2(a, b) == IF a <= b THEN a ELSE b

\* clamp(n, min, max) = Math.max(min, Math.min(max, n))
clamp(n, lo, hi) == Max2(lo, Min2(hi, n))

\* Math.round of the ratio num/den (den > 0): floor(num/den + 1/2).
RoundDiv(num, den) == (2 * num + den) \div (2 * den)

\* calcBMR rounded to whole kcal, times 4.
calcBMR4Rounded(gender, weightKg, heightCm, ageYears) ==
  IF gender = "male"
  THEN 4 * RoundDiv(40 * weightKg + 25 * heightCm - 20 * ageYears + 20, 4)
  ELSE 4 * RoundDiv(40 * weightKg + 25 * heightCm - 20 * ageYears - 644, 4)

\* calcBMR, times 4 (6.25 * height has quarters): no rounding.
calcBMR4(gender, weightKg, heightCm, ageYears) ==
  IF gender = "male"
  THEN 40 * weightKg + 25 * heightCm - 20 * ageYears + 20
  ELSE 40 * weightKg + 25 * heightCm - 20 * ageYears - 644

\* activityMultiplier with 1.5 for moderate and no factor for athlete other
\* than that of active.
activityMultiplier1000Typo(level) ==
  CASE level = "sedentary" -> 1200
    [] level = "light" -> 1375
    [] level = "moderate" -> 1500
    [] level = "active" -> 1725
    [] level = "athlete" -> 1725

\* activityMultiplier, times 1000.
activityMultiplier1000(level) ==
  CASE level = "sedentary" -> 1200
    [] level = "light" -> 1375
    [] level = "moderate" -> 1550
    [] level = "active" -> 1725
    [] level = "athlete" -> 1900

\* tdeeFrom with the BMR rounded before it is multiplied.
tdeeFromRoundedBMR(onb) ==
  LET bmr == RoundDiv(IF onb.gender = "male"
                      THEN 40 * onb.weight + 25 * onb.height - 20 * onb.age + 20
                      ELSE 40 * onb.weight + 25 * onb.height - 20 * onb.age - 644,
                      4)
      mult == CASE onb.activity = "sedentary" -> 1200
                [] onb.activity = "light" -> 1375
                [] onb.activity = "moderate" -> 1550
                [] onb.activity = "active" -> 1725
                [] onb.activity = "athlete" -> 1900
      tdee1000 == bmr * mult
  IN  IF onb.goal = "cut" THEN RoundDiv(tdee1000 - 400 * 1000, 1000)
      ELSE IF onb.goal = "bulk" THEN RoundDiv(tdee1000 + 300 * 1000, 1000)
      ELSE RoundDiv(tdee1000, 1000)

\* tdeeFrom with no branch for bulk.
tdeeFromNoBulk(onb) ==
  LET bmr4 == IF onb.gender = "male"
              THEN 40 * onb.weight + 25 * onb.height - 20 * onb.age + 20
              ELSE 40 * onb.weight + 25 * onb.height - 20 * onb.age - 644
      mult == CASE onb.activity = "sedentary" -> 1200
                [] onb.activity = "light" -> 1375
                [] onb.activity = "moderate" -> 1550
                [] onb.activity = "active" -> 1725
                [] onb.activity = "athlete" -> 1900
      tdee4000 == bmr4 * mult
  IN  IF onb.goal = "cut" THEN RoundDiv(tdee4000 - 400 * 4000, 4000)
      ELSE RoundDiv(tdee4000, 4000)

\* tdeeFrom: Math.round(tdee - 400), Math.round(tdee + 300), Math.round(tdee)
\* with tdee = bmr * multiplier, here as tdee * 4000.
tdeeFrom(onb) ==
  LET bmr4 == calcBMR4(onb.gender, onb.weight, onb.height, onb.age)
      tdee4000 == bmr4 * activityMultiplier1000(onb.activity)
  IN  IF onb.goal = "cut" THEN RoundDiv(tdee4000 - 400 * 4000, 4000)
      ELSE IF onb.goal = "bulk" THEN RoundDiv(tdee4000 + 300 * 4000, 4000)
      ELSE RoundDiv(tdee4000, 4000)

\* waterTargetMl with the bumps of the levels shifted by one level.
waterTargetMlShifted(onb) ==
  LET base == onb.weight * 35
      bump == CASE onb.activity = "sedentary" -> 0
                [] onb.activity = "light" -> 0
                [] onb.activity = "moderate" -> 200
                [] onb.activity = "active" -> 400
                [] onb.activity = "athlete" -> 600
  IN  RoundDiv(base + bump, 1)

\* waterTargetMl: Math.round(weight * 35 + bump).
waterTargetMl(onb) ==
  LET base == onb.weight * 35
      bump == CASE onb.activity = "sedentary" -> 0
                [] onb.activity = "light" -> 200
                [] onb.activity = "moderate" -> 400
                [] onb.activity = "active" -> 600
                [] onb.activity = "athlete" -> 800
  IN  RoundDiv(base + bump, 1)

\* formatTime with the minutes-only form up to and including 60.
formatTimeLate(mins) ==
  IF mins <= 60 THEN <<mins, "min">>
  ELSE <<mins \div 60, "hr", mins % 60, "min">>

\* formatTime: the text is the tuple of its numbers and unit words
\* ("min" and "hr" for the two Arabic abbreviations).
formatTime(mins) ==
  IF mins < 60 THEN <<mins, "min">>
  ELSE LET h == mins \div 60
           m == mins % 60
       IN  <<h, "hr", m, "min">>

(***************************************************************************)
(* Meal plan generator.  The random draws of one call (id(), pick(), the   *)
(* preparation time) are one seed; a meal's identity token is              *)
(* <<seed, slot>> and its ingredients and step texts are determined by     *)
(* the same draw, so they are carried by the id.                           *)
(***************************************************************************)
Seeds == {1, 2, 3}

buildMeal(title, kcal, p, c, f, seed, slot) ==
  [id |-> <<seed, slot>>, title |-> title, kcal |-> kcal,
   protein |-> p, carbs |-> c, fat |-> f,
   timeMins |-> 15 + ((7 * seed + 3 * slot) % 15),
   tags |-> <<"halal">>]

\* generateMealsForDay giving each snack the whole snack pool.
generateMealsForDaySnackPool(tdee, goal, seed) ==
  LET mainKcal == RoundDiv(tdee * 3, 4)
      snackKcal == tdee - mainKcal
      mealK == RoundDiv(mainKcal, 3)
  IN  [meals |-> << buildMeal("breakfast", mealK, 30, 50, 15, seed, 1),
                    buildMeal("lunch", mealK, 35, 55, 18, seed, 2),
                    buildMeal("dinner", mealK, 28, 45, 12, seed, 3) >>,
       snacks |-> << buildMeal("snack1", snackKcal, 12, 15, 8, seed, 4),
                     buildMeal("snack2", snackKcal, 10, 18, 6, seed, 5) >>]

\* generateMealsForDay cutting each share down to a whole number.
generateMealsForDayFloor(tdee, goal, seed) ==
  LET mainKcal == RoundDiv(tdee * 3, 4)
      snackKcal == tdee - mainKcal
      mealK == mainKcal \div 3
      snackK == snackKcal \div 2
  IN  [meals |-> << buildMeal("breakfast", mealK, 30, 50, 15, seed, 1),
                    buildMeal("lunch", mealK, 35, 55, 18, seed, 2),
                    buildMeal("dinner", mealK, 28, 45, 12, seed, 3) >>,
       snacks |-> << buildMeal("snack1", snackK, 12, 15, 8, seed, 4),
                     buildMeal("snack2", snackK, 10, 18, 6, seed, 5) >>]

generateMealsForDay(tdee, goal, seed) ==
  LET dayKcal == tdee
      mainKcal == RoundDiv(dayKcal * 3, 4)
      snackKcal == dayKcal - mainKcal
      mealK == RoundDiv(mainKcal, 3)
      snackK == RoundDiv(snackKcal, 2)
  IN  [meals |-> << buildMeal("breakfast", mealK, 30, 50, 15, seed, 1),
                    buildMeal("lunch", mealK, 35, 55, 18, seed, 2),
                    buildMeal("dinner", mealK, 28, 45, 12, seed, 3) >>,
       snacks |-> << buildMeal("snack1", snackK, 12, 15, 8, seed, 4),
                     buildMeal("snack2", snackK, 10, 18, 6, seed, 5) >>]

(***************************************************************************)
(* Day model                                                               *)
(***************************************************************************)
\* initDay giving every activity level the step goal 9000.
initDayOneGoal(onb, date, seed) ==
  LET tdee == tdeeFrom(onb)
      gen == generateMealsForDay(tdee, onb.goal, seed)
  IN  [date |-> date,
       sleepPct |-> 70,
       sittingHrs |-> 7,
       steps |-> 2500,
       stepsGoal |-> 9000,
       waterMl |-> 0,
       waterTarget |-> waterTargetMl(onb),
       kcalConsumed |-> 0,
       kcalTarget |-> tdee,
       meals |-> gen.meals,
       snacks |-> gen.snacks,
       prayerDone |-> FALSE,
       workoutDone |-> FALSE]

\* initDay(onb); date is TODAY_KEY() at the call, seed the random draws.
initDay(onb, date, seed) ==
  LET tdee == tdeeFrom(onb)
      gen == generateMealsForDay(tdee, onb.goal, seed)
  IN  [date |-> date,
       sleepPct |-> 70,
       sittingHrs |-> 7,
       steps |-> 2500,
       stepsGoal |-> IF onb.activity = "sedentary" THEN 6000 ELSE 9000,
       waterMl |-> 0,
       waterTarget |-> waterTargetMl(onb),
       kcalConsumed |-> 0,
       kcalTarget |-> tdee,
       meals |-> gen.meals,
       snacks |-> gen.snacks,
       prayerDone |-> FALSE,
       workoutDone |-> FALSE]

(***************************************************************************)
(* Nudges & halo                                                           *)
(***************************************************************************)
\* pickNudge with the movement test ahead of the hydration test.
pickNudgeMovementFirst(d) ==
  LET leftKcal == d.kcalTarget - d.kcalConsumed
      den == IF d.waterTarget > 1 THEN d.waterTarget ELSE 1
  IN  IF 2 * d.steps < d.stepsGoal THEN "movement"
      ELSE IF 2 * d.waterMl < den THEN "hydration"
      ELSE IF leftKcal > 300 THEN "protein"
      ELSE IF ~d.prayerDone THEN "prayer"
      ELSE IF d.sittingHrs > 8 THEN "posture"
      ELSE "keepgoing"

\* pickNudge: the message is named by a token.
pickNudge(d) ==
  LET leftKcal == d.kcalTarget - d.kcalConsumed
      den == Max2(1, d.waterTarget)
  IN  IF 2 * d.waterMl < den THEN "hydration"        \* waterPct < 0.5
      ELSE IF 2 * d.steps < d.stepsGoal THEN "movement"
      ELSE IF leftKcal > 300 THEN "protein"
      ELSE IF ~d.prayerDone THEN "prayer"
      ELSE IF d.sittingHrs > 8 THEN "posture"
      ELSE "keepgoing"

\* haloScore with the two values of faith exchanged.
haloScoreFaithSwapped(d) ==
  LET wDen == Max2(1, d.waterTarget)
      sDen == Max2(1, d.stepsGoal)
      wNum == clamp(d.waterMl * 100, 0, 100 * wDen)
      sleep == clamp(d.sleepPct, 0, 100)
      sNum == clamp(d.steps * 100, 0, 100 * sDen)
      faith == IF d.prayerDone THEN 30 ELSE 100
      sport == IF d.workoutDone THEN 100 ELSE 40
      whole == (wNum \div wDen) + sleep + (sNum \div sDen) + faith + sport
      rest == (2 * ((wNum % wDen) * sDen + (sNum % sDen) * wDen))
                \div (wDen * sDen)
  IN  (2 * whole + rest + 5) \div 10

\* haloScore with the water ratio clamped at 0 only.
haloScoreUnclamped(d) ==
  LET wDen == Max2(1, d.waterTarget)
      sDen == Max2(1, d.stepsGoal)
      wNum == Max2(0, d.waterMl * 100)
      sleep == clamp(d.sleepPct, 0, 100)
      sNum == clamp(d.steps * 100, 0, 100 * sDen)
      faith == IF d.prayerDone THEN 100 ELSE 30
      sport == IF d.workoutDone THEN 100 ELSE 40
      whole == (wNum \div wDen) + sleep + (sNum \div sDen) + faith + sport
      rest == (2 * ((wNum % wDen) * sDen + (sNum % sDen) * wDen))
                \div (wDen * sDen)
  IN  (2 * whole + rest + 5) \div 10

\* haloScore.  water and steps are ratios over wDen and sDen, so the sum of
\* the five sub-scores is whole + a fraction below 2; rest is the integer
\* part of twice that fraction, and Math.round(sum / 5) is
\* floor((2 * sum + 5) / 10).
haloScore(d) ==
  LET wDen == Max2(1, d.waterTarget)
      sDen == Max2(1, d.stepsGoal)
      wNum == clamp(d.waterMl * 100, 0, 100 * wDen)      \* water * wDen
      sleep == clamp(d.sleepPct, 0, 100)
      sNum == clamp(d.steps * 100, 0, 100 * sDen)        \* steps * sDen
      faith == IF d.prayerDone THEN 100 ELSE 30
      sport == IF d.workoutDone THEN 100 ELSE 40
      whole == (wNum \div wDen) + sleep + (sNum \div sDen) + faith + sport
      rest == (2 * ((wNum % wDen) * sDen + (sNum % sDen) * wDen))
                \div (wDen * sDen)
  IN  (2 * whole + rest + 5) \div 10


(***************************************************************************)
(* Profiles.  Defaults is the record the startup effect builds when no     *)
(* profile is stored; UserProfiles are the records a user types into the   *)
(* onboarding dialog.  Only the six fields the calculators read are kept   *)
(* (mealTimes, sleepTime and diet are display preferences).                *)
(***************************************************************************)
Defaults ==
  [gender |-> "male", age |-> 24, height |-> 175, weight |-> 90,
   goal |-> "cut", activity |-> "light"]

TypedProfile ==
  [gender |-> "female", age |-> 30, height |-> 165, weight |-> 60,
   goal |-> "maintain", activity |-> "moderate"]

UserProfiles == {TypedProfile}

(***************************************************************************)
(* Storage.  A stored value is a text: Absent (getItem gives null), Bad    *)
(* (a text JSON.parse throws on), or the JSON text of a value, modelled    *)
(* as the tuple of the object's values in key order behind a type tag.     *)
(***************************************************************************)
Absent == <<>>
Bad == <<"bad">>

\* JSON.stringify of a Meal and of a list of Meals.
StringifyMeal(m) ==
  <<m.id, m.title, m.kcal, m.protein, m.carbs, m.fat, m.timeMins, m.tags>>
StringifyMeals(ms) == [i \in DOMAIN ms |-> StringifyMeal(ms[i])]

\* JSON.stringify(day)
StringifyDay(d) ==
  <<"day", d.date, d.sleepPct, d.sittingHrs, d.steps, d.stepsGoal, d.waterMl,
    d.waterTarget, d.kcalConsumed, d.kcalTarget, StringifyMeals(d.meals),
    StringifyMeals(d.snacks), d.prayerDone, d.workoutDone>>

ParseMeal(t) ==
  [id |-> t[1], title |-> t[2], kcal |-> t[3], protein |-> t[4],
   carbs |-> t[5], fat |-> t[6], timeMins |-> t[7], tags |-> t[8]]
ParseMeals(ts) == [i \in DOMAIN ts |-> ParseMeal(ts[i])]

\* A parse that builds the Day with both flags cleared.
ParseDayFlagsReset(t) ==
  [date |-> t[2], sleepPct |-> t[3], sittingHrs |-> t[4], steps |-> t[5],
   stepsGoal |-> t[6], waterMl |-> t[7], waterTarget |-> t[8],
   kcalConsumed |-> t[9], kcalTarget |-> t[10], meals |-> ParseMeals(t[11]),
   snacks |-> ParseMeals(t[12]), prayerDone |-> FALSE, workoutDone |-> FALSE]

\* JSON.parse(savedDay) as DayData, for a text that parses.
ParseDay(t) ==
  [date |-> t[2], sleepPct |-> t[3], sittingHrs |-> t[4], steps |-> t[5],
   stepsGoal |-> t[6], waterMl |-> t[7], waterTarget |-> t[8],
   kcalConsumed |-> t[9], kcalTarget |-> t[10], meals |-> ParseMeals(t[11]),
   snacks |-> ParseMeals(t[12]), prayerDone |-> t[13], workoutDone |-> t[14]]

\* JSON.stringify(merged) and JSON.parse(saved) as OnboardingData.
StringifyOnb(o) ==
  <<"onb", o.gender, o.age, o.height, o.weight, o.goal, o.activity>>
ParseOnb(t) ==
  [gender |-> t[2], age |-> t[3], height |-> t[4], weight |-> t[5],
   goal |-> t[6], activity |-> t[7]]

\* String(next) and Number(s) of the streak.
StringifyStreak(n) == <<"num", n>>
ParseStreak(t) == t[2]

\* Storage keys K.onboarding, K.day(d), K.streak.
KOnboarding == <<"aiqo_onboarding_v2">>
KDay(d) == <<"aiqo_day", d>>
KStreak == <<"aiqo_streak_v2">>

EmptyStore ==
  [onboarding |-> Absent, days |-> [d \in Dates |-> Absent], streak |-> Absent]

\* KVStorage.getItem(key) on a store.
GetItem(st, key) ==
  IF key = KOnboarding THEN st.onboarding
  ELSE IF key = KStreak THEN st.streak
  ELSE IF key[2] \in Dates THEN st.days[key[2]]
  ELSE Absent

\* KVStorage.setItem(key, value) applied to a store.
SetItem(st, key, val) ==
  IF key = KOnboarding THEN [st EXCEPT !.onboarding = val]
  ELSE IF key = KStreak THEN [st EXCEPT !.streak = val]
  ELSE [st EXCEPT !.days[key[2]] = val]

RECURSIVE ApplyWrites(_, _)
ApplyWrites(st, ws) ==
  IF ws = <<>> THEN st
  ELSE ApplyWrites(SetItem(st, Head(ws).key, Head(ws).val), Tail(ws))

(***************************************************************************)
(* State.                                                                  *)
(***************************************************************************)
VARIABLES
  today,           \* the calendar date of the clock, TODAY_KEY()
  store,           \* the key-value store: values applied
  inflight,        \* setItem calls issued and not yet applied, in order
  onb,             \* useState: the Profile, NoOnb while null
  day,             \* useState: the Day, NoDay while null
  streak,          \* useState: the streak
  showOnboarding,  \* useState: the onboarding dialog is visible
  sPc,             \* the startup effect: the await it is suspended at
  sKey,            \* the startup effect: dk, the day key it asked for
  sStreak,         \* the startup effect: the streak text its getItem gives
  cPend,           \* completeDay calls suspended at their await: <<[ok, hadPrev]>>
  oPend,           \* onClose calls suspended at their await: <<merged>>
  nOps,            \* Day mutations pressed so far in the run
  last,            \* history: the step taken last
  preDay,          \* history: the persisted Day a restart wiped from memory
  doneDates,       \* history: the dates of the clock on which a completion succeeded
  fn,              \* a Day given to dayOk, pickNudge and haloScore, and the results
  calc,            \* an argument given to a calculator, and the result
  tab,             \* useState: the tab whose screen is mounted
  gym,             \* GymScreen while mounted: timer and intervalRef.current
  kitchen,         \* KitchenScreen while mounted: timer and timerRef.current
  sched,           \* the intervals setInterval scheduled and nothing cleared
  nextId,          \* the id the next setInterval call returns
  nSwitch,         \* presses of the bottom navigation so far
  tlast,           \* history: the timer step taken last
  alerts           \* history: the cook-finished alerts raised so far

appVars == <<today, store, inflight, onb, day, streak, showOnboarding, sPc,
             sKey, sStreak, cPend, oPend, nOps, last, preDay, doneDates>>

timerVars == <<tab, gym, kitchen, sched, nextId, nSwitch, tlast, alerts>>

\* The variables no step of the Day lifecycle changes.
aux == <<fn, calc, timerVars>>

vars == <<appVars, aux>>

NoOnb == [null |-> TRUE]
NoDay == [null |-> TRUE]

\* The draw of a generateMealsForDay call.  Identity tokens are opaque and
\* a call draws new ones, so the draw is named by the least seed that is
\* used neither by the Day in memory nor by the record stored for `date`,
\* the two plans the new one can be compared with.
SeedOf(d) == d.meals[1].id[1]
FreshSeed(mem, rec) ==
  LET used == (IF mem = NoDay THEN {} ELSE {SeedOf(mem)})
                \cup (IF rec \in {Absent, Bad} THEN {} ELSE {SeedOf(ParseDay(rec))})
  IN  CHOOSE s \in Seeds \ used : \A t \in Seeds \ used : s <= t

\* The store as a getItem issued now will see it: the storage backend
\* serves its calls in the order they were issued.
Seen == ApplyWrites(store, inflight)

Draw(date) == FreshSeed(day, GetItem(Seen, KDay(date)))

\* TODAY_KEY() of the day before: new Date(Date.now() - 24h).
Yesterday == today - 1


\* The screens are rendered once both are loaded (the loading screen
\* otherwise); the onboarding Modal covers them while it is visible.
Loaded == onb # NoOnb /\ day # NoDay
ButtonsLive == Loaded /\ ~showOnboarding

\* History record of a step.
Ev(op) ==
  [op |-> op, ok |-> FALSE, hadPrev |-> FALSE, before |-> 0, found |-> FALSE,
   same |-> FALSE]

\* A persist effect that writes under the key of the clock's date.
PersistWriteToday(d) == [key |-> KDay(today), val |-> StringifyDay(d)]

\* The persist effect: KVStorage.setItem(K.day(day.date), JSON.stringify(day)),
\* issued whenever the Day state changed to a non-null value.
PersistWrite(d) == [key |-> KDay(d.date), val |-> StringifyDay(d)]

\* setDay(d) with the persist effect that follows the render.
SetDay(d) ==
  /\ day' = d
  /\ inflight' = Append(inflight, PersistWrite(d))

Room == Len(inflight) < MaxInFlight

HasWrite(ws, key) == \E i \in DOMAIN ws : ws[i].key = key

(***************************************************************************)
(* Environment: the clock, the storage backend, the process.               *)
(***************************************************************************)
\* The calendar date changes.
Midnight ==
  /\ today < MaxDate
  /\ today' = today + 1
  /\ last' = Ev("Midnight")
  /\ UNCHANGED <<aux, doneDates, store, inflight, onb, day, streak, showOnboarding, sPc, sKey,
                 sStreak, cPend, oPend, nOps, preDay>>

\* The backend applies the oldest setItem in flight.
Flush ==
  /\ inflight # <<>>
  /\ store' = SetItem(store, Head(inflight).key, Head(inflight).val)
  /\ inflight' = Tail(inflight)
  /\ last' = Ev("Flush")
  /\ UNCHANGED <<aux, doneDates, today, onb, day, streak, showOnboarding, sPc, sKey, sStreak,
                 cPend, oPend, nOps, preDay>>

\* The app is closed and launched again: the component state is rebuilt
\* (useState initial values), suspended handlers are gone, and of the
\* writes in flight a prefix is applied and the rest is lost.  The startup
\* effect runs and issues getItem(K.onboarding).
Restart ==
  /\ \E k \in 0..Len(inflight) :
       store' = ApplyWrites(store, SubSeq(inflight, 1, k))
  /\ inflight' = <<>>
  /\ onb' = NoOnb
  /\ day' = NoDay
  /\ streak' = 0
  /\ showOnboarding' = FALSE
  /\ sPc' = "onb"
  /\ sKey' = 0
  /\ sStreak' = Absent
  /\ cPend' = <<>>
  /\ oPend' = <<>>
  /\ preDay' = IF day # NoDay /\ ~HasWrite(inflight, KDay(day.date))
               THEN day ELSE NoDay
  /\ last' = Ev("Restart")
  /\ UNCHANGED <<aux, doneDates, today, nOps>>

(***************************************************************************)
(* The startup effect (an async function: one step per await).             *)
(***************************************************************************)
\* A startup that creates the Day whatever is stored.
loadOrCreateNew(savedDay, o, date, seed) == initDay(o, date, seed)

\* savedDay ? (JSON.parse(savedDay) as DayData) : initDay(parsed)
loadOrCreate(savedDay, o, date, seed) ==
  IF savedDay # Absent THEN ParseDay(savedDay) ELSE initDay(o, date, seed)

\* After await getItem(K.onboarding): the branch on saved.
StartupOnb ==
  /\ sPc = "onb"
  /\ LET saved == GetItem(store, KOnboarding)
     IN  IF saved = Absent
         THEN /\ onb' = Defaults
              /\ SetDay(initDay(Defaults, today, Draw(today)))
              /\ showOnboarding' = TRUE
              /\ sPc' = "done"
              /\ UNCHANGED sKey
         ELSE IF saved = Bad
         THEN \* JSON.parse throws: the async function rejects
              /\ sPc' = "failed"
              /\ UNCHANGED <<onb, day, inflight, showOnboarding, sKey>>
         ELSE /\ onb' = ParseOnb(saved)
              /\ sKey' = today          \* dk = K.day(TODAY_KEY())
              /\ sPc' = "day"
              /\ UNCHANGED <<day, inflight, showOnboarding>>
  /\ preDay' = IF sPc' = "day" THEN preDay ELSE NoDay
  /\ last' = Ev("StartupOnb")
  /\ UNCHANGED <<aux, doneDates, today, store, streak, sStreak, cPend, oPend, nOps>>

\* After await getItem(dk): load or create the Day, then ask for the streak.
StartupDay ==
  /\ sPc = "day"
  /\ LET savedDay == GetItem(store, KDay(sKey))
     IN  IF savedDay = Bad
         THEN \* JSON.parse throws
              /\ sPc' = "failed"
              /\ last' = Ev("StartupDay")
              /\ UNCHANGED <<day, inflight, sStreak>>
         ELSE /\ SetDay(loadOrCreate(savedDay, onb, today, Draw(today)))
              /\ sStreak' = GetItem(store, KStreak)
              /\ sPc' = "streak"
              /\ last' = [Ev("StartupDay") EXCEPT
                            !.found = (savedDay # Absent),
                            !.same = (preDay # NoDay /\ preDay.date = sKey)]
  /\ preDay' = NoDay
  /\ UNCHANGED <<aux, doneDates, today, store, onb, streak, showOnboarding, sKey, cPend, oPend,
                 nOps>>

\* After await getItem(K.streak): setStreak(s ? Number(s) : 0).
StartupStreak ==
  /\ sPc = "streak"
  /\ streak' = IF sStreak # Absent THEN ParseStreak(sStreak) ELSE 0
  /\ sPc' = "done"
  /\ last' = Ev("StartupStreak")
  /\ UNCHANGED <<aux, doneDates, today, store, inflight, onb, day, showOnboarding, sKey,
                 sStreak, cPend, oPend, nOps, preDay>>


(***************************************************************************)
(* The onboarding dialog: onClose(data), an async function.                *)
(***************************************************************************)
\* Up to the await: merged = data ?? onb; setOnb(merged); setItem is issued.
\* data is a typed profile (save) or undefined (close): noData.
OnCloseStart(data, noData) ==
  /\ Loaded /\ showOnboarding
  /\ oPend = <<>>
  /\ Room
  /\ LET merged == IF noData THEN onb ELSE data
     IN  /\ onb' = merged
         /\ inflight' = Append(inflight, [key |-> KOnboarding,
                                          val |-> StringifyOnb(merged)])
         /\ oPend' = <<merged>>
  /\ last' = Ev("OnCloseStart")
  /\ UNCHANGED <<aux, doneDates, today, store, day, streak, showOnboarding, sPc, sKey, sStreak,
                 cPend, nOps, preDay>>

\* After the await (the profile write is applied): setDay(initDay(merged));
\* setShowOnboarding(false).
OnCloseFinish ==
  /\ oPend # <<>>
  /\ ~HasWrite(inflight, KOnboarding)
  /\ Room
  /\ SetDay(initDay(oPend[1], today, Draw(today)))
  /\ showOnboarding' = FALSE
  /\ oPend' = <<>>
  /\ last' = Ev("OnCloseFinish")
  /\ UNCHANGED <<aux, doneDates, today, store, onb, streak, sPc, sKey, sStreak, cPend, nOps,
                 preDay>>

(***************************************************************************)
(* Day mutations: each handler merges one field into the rendered Day.     *)
(***************************************************************************)
\* A meal handler that also takes the meal's energy off the target.
eatMealFromTarget(d, m) ==
  [d EXCEPT !.kcalConsumed = d.kcalConsumed + m.kcal,
            !.kcalTarget = d.kcalTarget - m.kcal]

\* A regeneration that rebuilds the whole Day.
regenerateDay(d, o, seed) == initDay(o, d.date, seed)

addWater(d, amt) == [d EXCEPT !.waterMl = d.waterMl + amt]
resetWater(d) == [d EXCEPT !.waterMl = 0]
addSteps(d, amt) == [d EXCEPT !.steps = d.steps + amt]
eatMeal(d, m) == [d EXCEPT !.kcalConsumed = d.kcalConsumed + m.kcal]
togglePrayer(d) == [d EXCEPT !.prayerDone = ~d.prayerDone]
saveWorkout(d) == [d EXCEPT !.workoutDone = TRUE]

\* onRegenerate: { ...d, ...generateMealsForDay(tdeeFrom(onb), onb.goal) }
regenerate(d, o, seed) ==
  LET gen == generateMealsForDay(tdeeFrom(o), o.goal, seed)
  IN  [d EXCEPT !.meals = gen.meals, !.snacks = gen.snacks]

\* A button of a screen is pressed and onDayChange(d) runs.
Press(op, d) ==
  /\ ButtonsLive
  /\ nOps < MaxOps
  /\ Room
  /\ SetDay(d)
  /\ nOps' = nOps + 1
  /\ last' = Ev(op)
  /\ UNCHANGED <<aux, doneDates, today, store, onb, streak, showOnboarding, sPc, sKey, sStreak,
                 cPend, oPend, preDay>>

AddWater(amt) == Press("AddWater", addWater(day, amt))
ResetWater == Press("ResetWater", resetWater(day))
AddSteps(amt) == Press("AddSteps", addSteps(day, amt))
EatMeal(i) == Press("EatMeal", eatMeal(day, (day.meals \o day.snacks)[i]))
TogglePrayer == Press("TogglePrayer", togglePrayer(day))
SaveWorkout == Press("SaveWorkout", saveWorkout(day))
Regenerate == Press("Regenerate", regenerate(day, onb, Draw(day.date)))

(***************************************************************************)
(* completeDay, an async function.                                         *)
(***************************************************************************)
\* A completion test that also asks for 90% of the energy target.
dayOkWithKcal(d) ==
  /\ 10 * d.waterMl >= 9 * d.waterTarget
  /\ 10 * d.steps >= 9 * d.stepsGoal
  /\ 10 * d.kcalConsumed >= 9 * d.kcalTarget

\* An updater that increments whether or not a prior-day record was found.
nextStreakIncrement(s, hadPrev) == s + 1

\* ok: day.waterMl >= day.waterTarget * 0.9 && day.steps >= day.stepsGoal * 0.9
dayOk(d) ==
  /\ 10 * d.waterMl >= 9 * d.waterTarget
  /\ 10 * d.steps >= 9 * d.stepsGoal

\* The updater of setStreak: hadPrev ? s + 1 : 1.
nextStreak(s, hadPrev) == IF hadPrev THEN s + 1 ELSE 1

\* The key completeDay asks for: K.day of the date 24 hours before now.
prevKey == KDay(Yesterday)

\* Up to the await: ok is computed from the rendered Day and
\* getItem(prevKey) is issued; hadPrev is truthy for any stored text.
CompleteDayStart ==
  /\ ButtonsLive
  /\ cPend = <<>>
  /\ cPend' = <<[ok |-> dayOk(day), hadPrev |-> GetItem(Seen, prevKey) # Absent]>>
  /\ last' = Ev("CompleteDayStart")
  /\ UNCHANGED <<aux, doneDates, today, store, inflight, onb, day, streak, showOnboarding, sPc,
                 sKey, sStreak, oPend, nOps, preDay>>

\* After the await: if ok, the streak is updated and written.
CompleteDayFinish ==
  /\ cPend # <<>>
  /\ LET c == cPend[1]
     IN  /\ IF c.ok
            THEN /\ Room
                 /\ nextStreak(streak, c.hadPrev) <= MaxStreak
                 /\ streak' = nextStreak(streak, c.hadPrev)
                 /\ inflight' = Append(inflight,
                      [key |-> KStreak, val |-> StringifyStreak(streak')])
            ELSE UNCHANGED <<streak, inflight>>
         /\ doneDates' = IF c.ok THEN doneDates \cup {today} ELSE doneDates
         /\ last' = [Ev("CompleteDayFinish") EXCEPT
                       !.ok = c.ok, !.hadPrev = c.hadPrev, !.before = streak]
  /\ cPend' = <<>>
  /\ UNCHANGED <<aux, today, store, onb, day, showOnboarding, sPc, sKey, sStreak,
                 oPend, nOps, preDay>>

(***************************************************************************)
(* Specification of the app: a fresh install on date 1.                    *)
(***************************************************************************)
NoFn == [d |-> NoDay, ok |-> "none", nudge |-> "none", halo |-> -1]

\* No calculator was applied.
NoCalc == [onb |-> NoOnb, n |-> 0, goal |-> "maintain", op |-> "none", out |-> 0]

\* The screens' timers at launch: the Home tab, nothing scheduled.
NoTimer == [timer |-> 0, ref |-> 0]

InitTimers ==
  /\ tab = "Home"
  /\ gym = NoTimer
  /\ kitchen = NoTimer
  /\ sched = {}
  /\ nextId = 1
  /\ nSwitch = 0
  /\ tlast = "Init"
  /\ alerts = 0

InitApp(st) ==
  /\ today = 1
  /\ store = st
  /\ inflight = <<>>
  /\ onb = NoOnb
  /\ day = NoDay
  /\ streak = 0
  /\ showOnboarding = FALSE
  /\ sPc = "onb"
  /\ sKey = 0
  /\ sStreak = Absent
  /\ cPend = <<>>
  /\ oPend = <<>>
  /\ nOps = 0
  /\ last = Ev("Init")
  /\ preDay = NoDay
  /\ doneDates = {}

\* What an earlier run on date 1 leaves in the store: the dialog was closed
\* with the default profile, water was added 12 times (+250) and steps 12
\* times (+500), and no completion was pressed.
ProgressDay ==
  [initDay(Defaults, 1, 1) EXCEPT !.waterMl = 3000, !.steps = 8500]
ProgressStore ==
  [EmptyStore EXCEPT !.onboarding = StringifyOnb(Defaults),
                     !.days[1] = StringifyDay(ProgressDay)]

\* The app is launched on date 1: a fresh install, or a relaunch.
Init ==
  /\ \E st \in {EmptyStore, ProgressStore} : InitApp(st)
  /\ fn = NoFn
  /\ calc = NoCalc
  /\ InitTimers

Next ==
  \/ Midnight
  \/ Flush
  \/ Restart
  \/ StartupOnb
  \/ StartupDay
  \/ StartupStreak
  \/ \E data \in UserProfiles : OnCloseStart(data, FALSE)
  \/ OnCloseStart(NoOnb, TRUE)
  \/ OnCloseFinish
  \/ \E amt \in {250, 500} : AddWater(amt)
  \/ ResetWater
  \/ \E amt \in {500, 1000} : AddSteps(amt)
  \/ \E i \in 1..5 : EatMeal(i)
  \/ TogglePrayer
  \/ SaveWorkout
  \/ Regenerate
  \/ CompleteDayStart
  \/ CompleteDayFinish

Spec == Init /\ [][Next]_vars


(***************************************************************************)
(* Stored texts that do not parse: the store of a launch may hold a        *)
(* malformed profile, or a malformed record under the key of date 1.       *)
(***************************************************************************)
CorruptStores ==
  {[EmptyStore EXCEPT !.onboarding = Bad],
   [ProgressStore EXCEPT !.days[1] = Bad]}

InitCorrupt ==
  /\ \E st \in {EmptyStore, ProgressStore} \cup CorruptStores : InitApp(st)
  /\ fn = NoFn
  /\ calc = NoCalc
  /\ InitTimers

SpecCorrupt == InitCorrupt /\ [][Next]_vars

(***************************************************************************)
(* Specification of the pure functions of a Day: a Day is drawn from       *)
(* FnDays and dayOk, pickNudge and haloScore are applied to it.            *)
(***************************************************************************)
FnDays ==
  [date : {1},
   sleepPct : {0, 50, 120},
   sittingHrs : {8, 9},
   steps : {0, 499, 500, 899, 900, 1200},
   stepsGoal : {0, 1000},
   waterMl : {0, 1, 999, 1000, 1799, 1800, 2500},
   waterTarget : {0, 1, 2000},
   kcalConsumed : {1699, 1700, 1701},
   kcalTarget : {2000},
   meals : {<<>>},
   snacks : {<<>>},
   prayerDone : BOOLEAN,
   workoutDone : BOOLEAN]

InitFn ==
  /\ InitApp(EmptyStore)
  /\ \E d \in FnDays : fn = [NoFn EXCEPT !.d = d]
  /\ calc = NoCalc
  /\ InitTimers

EvalOk ==
  /\ fn.ok = "none"
  /\ fn' = [fn EXCEPT !.ok = IF dayOk(fn.d) THEN "yes" ELSE "no"]
  /\ UNCHANGED <<appVars, timerVars, calc>>

EvalNudge ==
  /\ fn.nudge = "none"
  /\ fn' = [fn EXCEPT !.nudge = pickNudge(fn.d)]
  /\ UNCHANGED <<appVars, timerVars, calc>>

EvalHalo ==
  /\ fn.halo = -1
  /\ fn' = [fn EXCEPT !.halo = haloScore(fn.d)]
  /\ UNCHANGED <<appVars, timerVars, calc>>

NextFn ==
  \/ EvalOk
  \/ EvalNudge
  \/ EvalHalo

SpecFn == InitFn /\ [][NextFn]_vars

(***************************************************************************)
(* Specification of the timers.  GymScreen and KitchenScreen are rendered  *)
(* only while their tab is selected: leaving the tab unmounts the screen   *)
(* and its timer state and ref are gone, entering it mounts a new one.     *)
(* No effect clears an interval at unmount, so the interval of a screen    *)
(* that was unmounted stays scheduled (orphan); t is the timer state its   *)
(* screen rendered last.  A countdown of n seconds is n ticks; countdowns  *)
(* of at most MaxSecs seconds are started.                                 *)
(***************************************************************************)
Tabs == {"Home", "Gym", "Kitchen", "Captain"}

\* setInterval(...): the interval with the next id, of a mounted screen.
NewInterval(kind) == [id |-> nextId, kind |-> kind, orphan |-> FALSE, t |-> 0]

\* clearInterval(ref): the interval with that id is no longer scheduled.
ClearInterval(ivs, ref) == {i \in ivs : i.id # ref}

\* The screen of `kind` is unmounted while showing `secs`.
Orphaned(ivs, kind, secs) ==
  {IF i.kind = kind /\ ~i.orphan THEN [i EXCEPT !.orphan = TRUE, !.t = secs]
   ELSE i : i \in ivs}

\* BottomNav: setTab(t).
SetTab(t) ==
  /\ t # tab
  /\ nSwitch < MaxSwitches
  /\ nSwitch' = nSwitch + 1
  /\ tab' = t
  /\ gym' = IF tab = "Gym" THEN NoTimer ELSE gym
  /\ kitchen' = IF tab = "Kitchen" THEN NoTimer ELSE kitchen
  /\ sched' = IF tab = "Gym" THEN Orphaned(sched, "rest", gym.timer)
              ELSE IF tab = "Kitchen" THEN Orphaned(sched, "cook", kitchen.timer)
              ELSE sched
  /\ tlast' = "SetTab"
  /\ UNCHANGED <<appVars, fn, calc, nextId, alerts>>

\* GymScreen.startRest, rest being the seconds the Counter shows.
StartRest(rest) ==
  /\ tab = "Gym"
  /\ nextId <= MaxTimers
  /\ gym' = [timer |-> rest, ref |-> nextId]
  /\ sched' = ClearInterval(sched, gym.ref) \cup {NewInterval("rest")}
  /\ nextId' = nextId + 1
  /\ tlast' = "StartRest"
  /\ UNCHANGED <<appVars, fn, calc, tab, kitchen, nSwitch, alerts>>

\* KitchenScreen.startCook(m), secs being m.timeMins * 60.
StartCook(secs) ==
  /\ tab = "Kitchen"
  /\ nextId <= MaxTimers
  /\ kitchen' = [timer |-> secs, ref |-> nextId]
  /\ sched' = ClearInterval(sched, kitchen.ref) \cup {NewInterval("cook")}
  /\ nextId' = nextId + 1
  /\ tlast' = "StartCook"
  /\ UNCHANGED <<appVars, fn, calc, tab, gym, nSwitch, alerts>>

\* The stop button of the Kitchen screen, rendered while timer is not 0:
\* setTimer(0).
StopCook ==
  /\ tab = "Kitchen"
  /\ kitchen.timer # 0
  /\ kitchen' = [kitchen EXCEPT !.timer = 0]
  /\ tlast' = "StopCook"
  /\ UNCHANGED <<appVars, fn, calc, tab, gym, sched, nextId, nSwitch, alerts>>

\* The updater of a tick: t <= 1 clears ref.current and gives 0, else t - 1.
TickTimer(scr) ==
  IF scr.timer <= 1 THEN [scr EXCEPT !.timer = 0]
  ELSE [scr EXCEPT !.timer = scr.timer - 1]
TickSched(ivs, scr) ==
  IF scr.timer <= 1 THEN ClearInterval(ivs, scr.ref) ELSE ivs

\* The interval of the mounted Gym screen fires.
TickRest ==
  /\ \E i \in sched : i.kind = "rest" /\ ~i.orphan
  /\ gym' = TickTimer(gym)
  /\ sched' = TickSched(sched, gym)
  /\ tlast' = "TickRest"
  /\ UNCHANGED <<appVars, fn, calc, tab, kitchen, nextId, nSwitch, alerts>>

\* The interval of the mounted Kitchen screen fires; with t <= 1 its
\* updater also calls Alert.alert.
TickCook ==
  /\ \E i \in sched : i.kind = "cook" /\ ~i.orphan
  /\ kitchen' = TickTimer(kitchen)
  /\ sched' = TickSched(sched, kitchen)
  /\ alerts' = IF kitchen.timer <= 1 THEN alerts + 1 ELSE alerts
  /\ tlast' = "TickCook"
  /\ UNCHANGED <<appVars, fn, calc, tab, gym, nextId, nSwitch>>

\* The interval of an unmounted screen fires: setTimer of an unmounted
\* component renders nothing.  The updater is either not run, and nothing
\* changes, or run on the state rendered last, and then with t <= 1 it
\* clears the interval (and the cook updater calls Alert.alert).
TickOrphan ==
  /\ \E i \in sched :
       /\ i.orphan
       /\ i.t <= 1
       /\ sched' = sched \ {i}
       /\ alerts' = IF i.kind = "cook" THEN alerts + 1 ELSE alerts
  /\ tlast' = "TickOrphan"
  /\ UNCHANGED <<appVars, fn, calc, tab, gym, kitchen, nextId, nSwitch>>

NextTimers ==
  \/ \E t \in Tabs : SetTab(t)
  \/ \E rest \in 0..MaxSecs : StartRest(rest)
  \/ \E secs \in 1..MaxSecs : StartCook(secs)
  \/ StopCook
  \/ TickRest
  \/ TickCook
  \/ TickOrphan

InitTimersSpec ==
  /\ InitApp(EmptyStore)
  /\ fn = NoFn
  /\ calc = NoCalc
  /\ InitTimers

SpecTimers == InitTimersSpec /\ [][NextTimers]_vars

\* The timers under the host's scheduling: setInterval fires the callback
\* of a scheduled interval every second, so the tick of a mounted screen
\* whose interval is scheduled is taken again and again.  Nothing makes the
\* updater of an unmounted screen run.
SpecTimersFair == SpecTimers /\ WF_vars(TickRest) /\ WF_vars(TickCook)

(***************************************************************************)
(* Specification of the calculators: an argument is drawn (a Profile, a    *)
(* number of minutes, or a daily target with a goal) and one calculator is *)
(* applied to it.                                                          *)
(***************************************************************************)
Genders == {"male", "female"}
Goals == {"cut", "bulk", "maintain"}
Levels == {"sedentary", "light", "moderate", "active", "athlete"}

CalcProfiles ==
  [gender : Genders,
   age : {24, 30, 61, 90},
   height : {100, 150, 165, 175, 198},
   weight : {25, 45, 60, 90, 133},
   goal : Goals,
   activity : Levels]

InitCalc ==
  /\ InitApp(EmptyStore)
  /\ fn = NoFn
  /\ InitTimers
  /\ \/ \E o \in CalcProfiles : calc = [NoCalc EXCEPT !.onb = o]
     \/ \E n \in 0..MaxMins : calc = [NoCalc EXCEPT !.n = n]
     \/ \E n \in 1..MaxKcal, g \in Goals :
          calc = [NoCalc EXCEPT !.n = n, !.goal = g]

\* The calculator `op` is applied and gives `out`.
Applied(op, out) ==
  /\ calc.op = "none"
  /\ calc' = [calc EXCEPT !.op = op, !.out = out]
  /\ UNCHANGED <<appVars, fn, timerVars>>

EvalBMR ==
  /\ calc.onb # NoOnb
  /\ Applied("calcBMR", calcBMR4(calc.onb.gender, calc.onb.weight,
                                 calc.onb.height, calc.onb.age))

EvalMultiplier ==
  /\ calc.onb # NoOnb
  /\ Applied("activityMultiplier", activityMultiplier1000(calc.onb.activity))

EvalTdee ==
  /\ calc.onb # NoOnb
  /\ Applied("tdeeFrom", tdeeFrom(calc.onb))

EvalWater ==
  /\ calc.onb # NoOnb
  /\ Applied("waterTargetMl", waterTargetMl(calc.onb))

EvalFormat ==
  /\ calc.onb = NoOnb
  /\ calc.n <= MaxMins
  /\ Applied("formatTime", formatTime(calc.n))

EvalMeals ==
  /\ calc.onb = NoOnb
  /\ calc.n >= 1
  /\ Applied("generateMealsForDay", generateMealsForDay(calc.n, calc.goal, 1))

EvalInitDay ==
  /\ calc.onb # NoOnb
  /\ Applied("initDay", initDay(calc.onb, 1, 1))

NextCalc ==
  \/ EvalBMR
  \/ EvalMultiplier
  \/ EvalTdee
  \/ EvalWater
  \/ EvalFormat
  \/ EvalMeals
  \/ EvalInitDay

SpecCalc == InitCalc /\ [][NextCalc]_vars

(***************************************************************************)
(* Properties.  A step is named by the history record it leaves in last'.  *)
(***************************************************************************)
\* The completion test as the specification words it: at least 90% of the
\* water target and at least 90% of the step goal.
PassesTest(d) ==
  /\ 10 * d.waterMl >= 9 * d.waterTarget
  /\ 10 * d.steps >= 9 * d.stepsGoal

\* C1: completeDay judges the rendered Day by the completion test and looks
\* for a record under the key of the previous date; when the Day fails the
\* test the streak in memory and the store are left as they are; when it
\* passes and a prior-day record was found the streak becomes the previous
\* streak + 1, when it passes and none was found it becomes 1, and that
\* number is the text written under the streak key.
C1_StreakUpdate ==
  [][ /\ last'.op = "CompleteDayStart" =>
           /\ cPend'[1].ok = PassesTest(day)
           /\ cPend'[1].hadPrev = (GetItem(Seen, KDay(today - 1)) # Absent)
      /\ last'.op = "CompleteDayFinish" =>
           LET c == cPend[1]
           IN  /\ ~c.ok =>
                    streak' = streak /\ store' = store /\ inflight' = inflight
               /\ (c.ok /\ c.hadPrev) =>
                    /\ streak' = streak + 1
                    /\ GetItem(Seen', KStreak) = StringifyStreak(streak + 1)
               /\ (c.ok /\ ~c.hadPrev) =>
                    /\ streak' = 1
                    /\ GetItem(Seen', KStreak) = StringifyStreak(1)
    ]_vars

\* C1 witness: a Day that passes with no prior-day record, completed while
\* the streak was already positive, leaves the streak at 1.
C1_Witness ==
  /\ last.op = "CompleteDayFinish"
  /\ last.ok /\ ~last.hadPrev
  /\ last.before >= 1
  /\ streak = 1

\* The Days that differ from d in none of waterMl, waterTarget, steps and
\* stepsGoal.
Variants(d) ==
  {[d EXCEPT !.kcalConsumed = k, !.kcalTarget = t, !.sleepPct = s,
             !.sittingHrs = h, !.prayerDone = p, !.workoutDone = w] :
     k \in {0, 1700, 5000}, t \in {0, 2000}, s \in {0, 120}, h \in {0, 12},
     p \in BOOLEAN, w \in BOOLEAN}

\* C2: a Day is judged complete exactly when waterMl >= 0.9 * waterTarget and
\* steps >= 0.9 * stepsGoal, and the judgement is the same for every Day that
\* differs only in kcalConsumed, kcalTarget, sleepPct, sittingHrs, prayerDone
\* or workoutDone.
C2_CompletionTest ==
  fn.ok # "none" =>
    /\ (fn.ok = "yes") <=> PassesTest(fn.d)
    /\ \A e \in Variants(fn.d) : dayOk(e) <=> (fn.ok = "yes")

\* C2 witness: a Day exactly at both thresholds, with the energy target
\* unmet and neither flag set, is judged complete.
C2_Witness ==
  /\ fn.ok = "yes"
  /\ fn.d.waterTarget > 0 /\ 10 * fn.d.waterMl = 9 * fn.d.waterTarget
  /\ fn.d.stepsGoal > 0 /\ 10 * fn.d.steps = 9 * fn.d.stepsGoal
  /\ fn.d.kcalConsumed < fn.d.kcalTarget
  /\ ~fn.d.prayerDone /\ ~fn.d.workoutDone

\* C3: pickNudge returns the nudge of the first condition that holds, in
\* the order water ratio < 0.5 (hydration), steps < stepsGoal / 2
\* (movement), more than 300 kcal left (protein), prayer not done (prayer),
\* more than 8 hours sitting (posture), and the encouragement when none
\* holds; so the hydration nudge is returned whenever the water ratio is
\* below 0.5.
C3_NudgePriority ==
  fn.nudge # "none" =>
    LET d == fn.d
        c1 == 2 * d.waterMl < (IF d.waterTarget > 1 THEN d.waterTarget ELSE 1)
        c2 == 2 * d.steps < d.stepsGoal
        c3 == d.kcalTarget - d.kcalConsumed > 300
        c4 == ~d.prayerDone
        c5 == d.sittingHrs > 8
    IN  /\ c1 => fn.nudge = "hydration"
        /\ (~c1 /\ c2) => fn.nudge = "movement"
        /\ (~c1 /\ ~c2 /\ c3) => fn.nudge = "protein"
        /\ (~c1 /\ ~c2 /\ ~c3 /\ c4) => fn.nudge = "prayer"
        /\ (~c1 /\ ~c2 /\ ~c3 /\ ~c4 /\ c5) => fn.nudge = "posture"
        /\ (~c1 /\ ~c2 /\ ~c3 /\ ~c4 /\ ~c5) => fn.nudge = "keepgoing"

\* C3 witness: every one of the five conditions holds and the hydration
\* nudge is the one returned.
C3_Witness ==
  /\ fn.nudge = "hydration"
  /\ 2 * fn.d.steps < fn.d.stepsGoal
  /\ fn.d.kcalTarget - fn.d.kcalConsumed > 300
  /\ ~fn.d.prayerDone
  /\ fn.d.sittingHrs > 8

\* C4: haloScore is an integer h in 0..100 with h - 1/2 <= mean < h + 1/2,
\* the mean being that of water and steps (the ratio to the target times
\* 100, a target of 0 counted as 1, clamped to 0..100), sleep (sleepPct
\* clamped to 0..100), faith (100 or 30) and sport (100 or 40).
C4_HaloScore ==
  fn.halo # -1 =>
    LET d == fn.d
        h == fn.halo
        wDen == IF d.waterTarget = 0 THEN 1 ELSE d.waterTarget
        sDen == IF d.stepsGoal = 0 THEN 1 ELSE d.stepsGoal
        \* the water and steps sub-scores, times wDen and sDen
        water == Min2(100 * wDen, Max2(0, 100 * d.waterMl))
        steps == Min2(100 * sDen, Max2(0, 100 * d.steps))
        sleep == Min2(100, Max2(0, d.sleepPct))
        faith == IF d.prayerDone THEN 100 ELSE 30
        sport == IF d.workoutDone THEN 100 ELSE 40
        \* ten times the mean, times wDen * sDen
        mean10 == 2 * (water * sDen + steps * wDen
                         + (sleep + faith + sport) * wDen * sDen)
    IN  /\ h \in 0..100
        /\ (10 * h - 5) * wDen * sDen <= mean10
        /\ mean10 < (10 * h + 5) * wDen * sDen

\* C4 witness: with both targets 0 and every sub-score at its cap the score
\* is 100.
C4_Witness ==
  /\ fn.halo = 100
  /\ fn.d.waterTarget = 0 /\ fn.d.waterMl > 0
  /\ fn.d.stepsGoal = 0 /\ fn.d.steps > 0
  /\ fn.d.sleepPct > 100

\* The handlers that merge one field into the Day.
Mutations ==
  {"AddWater", "ResetWater", "AddSteps", "EatMeal", "TogglePrayer",
   "SaveWorkout"}

\* C5: a water, steps, meal, prayer or workout step changes the one Day
\* field it names, by the amount of the button, and no other field; none of
\* them changes kcalTarget, waterTarget, stepsGoal or date.
C5_MutationFrame ==
  [][ last'.op \in Mutations =>
        /\ last'.op = "AddWater" =>
             /\ day' = [day EXCEPT !.waterMl = day'.waterMl]
             /\ day'.waterMl - day.waterMl \in {250, 500}
        /\ last'.op = "ResetWater" =>
             /\ day' = [day EXCEPT !.waterMl = day'.waterMl]
             /\ day'.waterMl = 0
        /\ last'.op = "AddSteps" =>
             /\ day' = [day EXCEPT !.steps = day'.steps]
             /\ day'.steps - day.steps \in {500, 1000}
        /\ last'.op = "EatMeal" =>
             /\ day' = [day EXCEPT !.kcalConsumed = day'.kcalConsumed]
             /\ \E i \in 1..5 :
                  day'.kcalConsumed
                    = day.kcalConsumed + (day.meals \o day.snacks)[i].kcal
        /\ last'.op = "TogglePrayer" =>
             /\ day' = [day EXCEPT !.prayerDone = day'.prayerDone]
             /\ day'.prayerDone = ~day.prayerDone
        /\ last'.op = "SaveWorkout" =>
             /\ day' = [day EXCEPT !.workoutDone = day'.workoutDone]
             /\ day'.workoutDone
        /\ day'.kcalTarget = day.kcalTarget
        /\ day'.waterTarget = day.waterTarget
        /\ day'.stepsGoal = day.stepsGoal
        /\ day'.date = day.date
    ]_vars

\* C5 witness: a meal was marked eaten on a Day with progress, and the
\* water and steps of the Day are still what they were.
C5_Witness ==
  /\ last.op = "EatMeal"
  /\ day.kcalConsumed > 0
  /\ day.waterMl = 3000 /\ day.steps = 8500
  /\ day.kcalTarget = tdeeFrom(onb)

\* C6: a regeneration step replaces meals and snacks by a generated plan of
\* 3 meals and 2 snacks for the current Profile, new in its identity tokens,
\* and leaves every other field of the Day as it was.
C6_RegenerateFrame ==
  [][ last'.op = "Regenerate" =>
        /\ day' = [day EXCEPT !.meals = day'.meals, !.snacks = day'.snacks]
        /\ Len(day'.meals) = 3
        /\ Len(day'.snacks) = 2
        /\ \E s \in Seeds :
             LET gen == generateMealsForDay(tdeeFrom(onb), onb.goal, s)
             IN  day'.meals = gen.meals /\ day'.snacks = gen.snacks
        /\ \A i \in 1..3, j \in 1..3 : day'.meals[i].id # day.meals[j].id
        /\ \A i \in 1..2, j \in 1..2 : day'.snacks[i].id # day.snacks[j].id
    ]_vars

\* C6 witness: the plan of a Day with progress was regenerated and the
\* progress is still there.
C6_Witness ==
  /\ last.op = "Regenerate"
  /\ day.waterMl = 3000 /\ day.steps = 8500
  /\ Len(day.meals) = 3 /\ Len(day.snacks) = 2

\* C7: when the startup effect, with a stored Profile, finds a record under
\* the day key it asked for, the Day in memory is exactly that record; when
\* it finds none, the Day in memory has waterMl = 0, kcalConsumed = 0 and
\* both flags false.
C7_LoadOrCreate ==
  [][ (last'.op = "StartupDay" /\ sPc' = "streak") =>
        LET rec == GetItem(store, KDay(sKey))
        IN  /\ rec # Absent => StringifyDay(day') = rec
            /\ rec = Absent =>
                 /\ day'.waterMl = 0
                 /\ day'.kcalConsumed = 0
                 /\ ~day'.prayerDone
                 /\ ~day'.workoutDone
    ]_vars

\* C7 witness: no record was found for date 2 and the new Day has no water,
\* while the record of date 1 holds 3000 ml or more.
C7_Witness ==
  /\ last.op = "StartupDay"
  /\ ~last.found
  /\ day.date = 2 /\ day.waterMl = 0
  /\ GetItem(store, KDay(1)) # Absent
  /\ ParseDay(GetItem(store, KDay(1))).waterMl >= 3000

\* C8: every step that changes the Day in memory issues the write of that
\* Day under the key of its own date, and whenever no write is in flight
\* the record stored under that key is the Day in memory.
C8_DayPersisted ==
  /\ [](day # NoDay /\ inflight = <<>> =>
          GetItem(store, KDay(day.date)) = StringifyDay(day))
  /\ [][ (day' # day /\ day' # NoDay) =>
           inflight' = Append(inflight, [key |-> KDay(day'.date),
                                         val |-> StringifyDay(day')])
       ]_vars

\* C8 witness: water was added after midnight to the Day of date 1, and
\* with nothing in flight the record of date 1 holds it.
C8_Witness ==
  /\ day # NoDay
  /\ inflight = <<>>
  /\ day.date = 1 /\ today = 2
  /\ day.waterMl > 3000
  /\ GetItem(store, KDay(1)) = StringifyDay(day)

C10_MalformedIsAbsent == sPc # "failed"

\* The intervals of a kind that are scheduled.
Scheduled(kind) == {i \in sched : i.kind = kind}

\* C11: at most one repeating tick of each kind is scheduled, whatever
\* starts, stops, ticks and tab switches came before.
C11_OneTickPerKind ==
  /\ Cardinality(Scheduled("rest")) <= 1
  /\ Cardinality(Scheduled("cook")) <= 1

\* A countdown of a kind is running: its screen shows seconds left and its
\* interval is scheduled.
Running(kind, scr) == scr.timer > 0 /\ \E i \in Scheduled(kind) : i.id = scr.ref

\* C12: going to another tab and starting or stopping the timer of the
\* other kind leave a running countdown running with the seconds it had.
C12_NoCrossKind ==
  [][ /\ (tlast' \in {"SetTab", "StartCook", "StopCook"} /\ Running("rest", gym))
           => (Running("rest", gym') /\ gym'.timer = gym.timer)
      /\ (tlast' \in {"SetTab", "StartRest"} /\ Running("cook", kitchen))
           => (Running("cook", kitchen') /\ kitchen'.timer = kitchen.timer)
    ]_vars

\* The tables and the equation of the specification: four times the
\* Mifflin-St Jeor BMR, the activity factor times 1000, the goal offset and
\* the hydration bump.
MifflinStJeor4(o) ==
  40 * o.weight + 25 * o.height - 20 * o.age
    + (IF o.gender = "male" THEN 4 * 5 ELSE -(4 * 161))
Factor1000 ==
  [l \in Levels |->
     CASE l = "sedentary" -> 1200 [] l = "light" -> 1375
       [] l = "moderate" -> 1550 [] l = "active" -> 1725
       [] l = "athlete" -> 1900]
GoalOffset ==
  [g \in Goals |-> CASE g = "cut" -> -400 [] g = "bulk" -> 300
                     [] g = "maintain" -> 0]
Bump ==
  [l \in Levels |->
     CASE l = "sedentary" -> 0 [] l = "light" -> 200 [] l = "moderate" -> 400
       [] l = "active" -> 600 [] l = "athlete" -> 800]

\* C13: tdeeFrom(profile) is r + offset, where offset is -400, 300 or 0 for
\* cut, bulk, maintain and r is BMR * factor rounded once (r - 1/2 <= BMR *
\* factor < r + 1/2); for male/24/175/90/cut/light it is 2583 - 400.
C13_TdeeRounding ==
  calc.op = "tdeeFrom" =>
    LET o == calc.onb
        x8000 == 2 * MifflinStJeor4(o) * Factor1000[o.activity]
        r == calc.out - GoalOffset[o.goal]
    IN  /\ 4000 * (2 * r - 1) <= x8000
        /\ x8000 < 4000 * (2 * r + 1)
        /\ o = Defaults => calc.out = 2583 - 400

\* C13 witness: BMR * factor is 2254.5 (male/24/175/90, sedentary), a tie,
\* and the cut target is 2255 - 400.
C13_Witness ==
  /\ calc.op = "tdeeFrom"
  /\ calc.onb = [Defaults EXCEPT !.activity = "sedentary"]
  /\ calc.out = 1855

\* C14: for Profiles that differ only in goal, tdeeFrom is an integer and
\* cut < maintain < bulk.
C14_GoalOrder ==
  calc.op = "tdeeFrom" =>
    LET o == calc.onb
        other(g) == tdeeFrom([o EXCEPT !.goal = g])
    IN  /\ calc.out \in Int
        /\ calc.out = other(o.goal)
        /\ other("cut") < other("maintain")
        /\ other("maintain") < other("bulk")

\* C14 witness: a maintain Profile whose cut and bulk variants are 400
\* below and 300 above it.
C14_Witness ==
  /\ calc.op = "tdeeFrom"
  /\ calc.onb.goal = "maintain"
  /\ tdeeFrom([calc.onb EXCEPT !.goal = "cut"]) = calc.out - 400
  /\ tdeeFrom([calc.onb EXCEPT !.goal = "bulk"]) = calc.out + 300

\* The sum of the kcal of a list of meals.
RECURSIVE SumKcal(_)
SumKcal(ms) == IF ms = <<>> THEN 0 ELSE Head(ms).kcal + SumKcal(Tail(ms))

\* C15: for a positive integer target generateMealsForDay returns 3 meals
\* and 2 snacks whose kcal sum to within 60 of the target.
C15_MealPlanTotal ==
  calc.op = "generateMealsForDay" =>
    LET total == SumKcal(calc.out.meals) + SumKcal(calc.out.snacks)
    IN  /\ Len(calc.out.meals) = 3
        /\ Len(calc.out.snacks) = 2
        /\ total - calc.n <= 60
        /\ calc.n - total <= 60

\* C15 witness: the plan for 2400 kcal, maintain.
C15_Witness ==
  /\ calc.op = "generateMealsForDay"
  /\ calc.n = 2400 /\ calc.goal = "maintain"
  /\ Len(calc.out.meals) = 3 /\ Len(calc.out.snacks) = 2
  /\ SumKcal(calc.out.meals) + SumKcal(calc.out.snacks) = 2400

\* C16: waterTargetMl(profile) is weight * 35 + bump (an integer, so the
\* rounding leaves it), bump being 0, 200, 400, 600, 800 by level; 3350 for
\* 90 kg and light.
C16_WaterTarget ==
  calc.op = "waterTargetMl" =>
    /\ calc.out = calc.onb.weight * 35 + Bump[calc.onb.activity]
    /\ (calc.onb.weight = 90 /\ calc.onb.activity = "light") => calc.out = 3350

\* C16 witness: 90 kg, light.
C16_Witness ==
  /\ calc.op = "waterTargetMl"
  /\ calc.onb.weight = 90 /\ calc.onb.activity = "light"
  /\ calc.out = 3350

\* C17: calcBMR is the Mifflin-St Jeor value, unrounded (here times 4):
\* 1878.75 for male/90/175/24 and 1320.25 for female/60/165/30.
C17_BMR ==
  calc.op = "calcBMR" =>
    LET o == calc.onb
    IN  /\ calc.out = MifflinStJeor4(o)
        /\ (o.gender = "male" /\ o.weight = 90 /\ o.height = 175 /\ o.age = 24)
             => calc.out = 7515
        /\ (o.gender = "female" /\ o.weight = 60 /\ o.height = 165 /\ o.age = 30)
             => calc.out = 5281

\* C17 witness: female/60/165/30 gives 1320.25, not a whole number.
C17_Witness ==
  /\ calc.op = "calcBMR"
  /\ calc.onb.gender = "female" /\ calc.onb.weight = 60
  /\ calc.onb.height = 165 /\ calc.onb.age = 30
  /\ calc.out = 5281
  /\ calc.out % 4 # 0

\* C18: activityMultiplier gives each of the five levels its factor of the
\* table, and no level is without one.
C18_ActivityTable ==
  /\ calc.op = "activityMultiplier" => calc.out = Factor1000[calc.onb.activity]
  /\ \A l \in Levels : activityMultiplier1000(l) = Factor1000[l]

\* C18 witness: athlete gives 1.9.
C18_Witness ==
  /\ calc.op = "activityMultiplier"
  /\ calc.onb.activity = "athlete"
  /\ calc.out = 1900

\* The Days that improve d in one input: more water, more steps, more
\* sleep, the prayer done or the workout done.
Improved(d) ==
  {[d EXCEPT !.waterMl = w] : w \in {x \in {1, 999, 1000, 1800, 2500, 4000} : x > d.waterMl}}
    \cup {[d EXCEPT !.steps = n] : n \in {x \in {499, 500, 900, 1200, 3000} : x > d.steps}}
    \cup {[d EXCEPT !.sleepPct = p] : p \in {x \in {50, 99, 100, 120, 150} : x > d.sleepPct}}
    \cup (IF d.prayerDone THEN {} ELSE {[d EXCEPT !.prayerDone = TRUE]})
    \cup (IF d.workoutDone THEN {} ELSE {[d EXCEPT !.workoutDone = TRUE]})

\* d with water and steps at target, prayer and workout done, and sleep p.
Perfected(d, p) ==
  [d EXCEPT !.waterMl = d.waterTarget, !.steps = d.stepsGoal,
            !.prayerDone = TRUE, !.workoutDone = TRUE, !.sleepPct = p]

\* C19: improving one of waterMl, steps, sleepPct, prayerDone, workoutDone
\* of a Day never lowers haloScore, and a Day with water and steps below
\* target and neither flag set scores strictly lower than the same Day with
\* water and steps at target, both flags set and more sleep.
C19_HaloMonotone ==
  fn.halo # -1 =>
    LET d == fn.d
    IN  /\ \A e \in Improved(d) : haloScore(e) >= fn.halo
        /\ (d.waterMl < d.waterTarget /\ d.steps < d.stepsGoal
              /\ ~d.prayerDone /\ ~d.workoutDone)
             => \A p \in {x \in {50, 90, 120, 150} : x > d.sleepPct} :
                  haloScore(Perfected(d, p)) > fn.halo

\* C19 witness: a Day with no prayer, no workout and water and steps below
\* target was scored, and with all five improved the score is 100.
C19_Witness ==
  /\ fn.halo # -1
  /\ fn.d.waterMl < fn.d.waterTarget /\ fn.d.steps < fn.d.stepsGoal
  /\ ~fn.d.prayerDone /\ ~fn.d.workoutDone
  /\ fn.d.sleepPct = 50
  /\ haloScore(Perfected(fn.d, 120)) = 100
  /\ fn.halo < 100

\* C20: formatTime(mins) is the minutes alone when mins < 60 and otherwise
\* h hours and m minutes with 60 * h + m = mins and 0 <= m < 60; 45 gives
\* the 45-minute form and 125 has the hour component 2.
C20_FormatTime ==
  calc.op = "formatTime" =>
    LET n == calc.n
        out == calc.out
    IN  /\ n < 60 => out = <<n, "min">>
        /\ n >= 60 =>
             /\ Len(out) = 4
             /\ out[2] = "hr" /\ out[4] = "min"
             /\ 60 * out[1] + out[3] = n
             /\ 0 <= out[3] /\ out[3] < 60
        /\ n = 45 => out = <<45, "min">>
        /\ n = 125 => out[1] = 2 /\ out[2] = "hr"

\* C20 witness: 125 minutes are 2 hours and 5 minutes.
C20_Witness ==
  /\ calc.op = "formatTime"
  /\ calc.n = 125
  /\ calc.out = <<2, "hr", 5, "min">>

\* C21: a successful completion raises a positive streak by one only if the
\* store holds a record for the date before the date of the completed Day
\* (day.date); the record of the completed Day itself is not its prior-day
\* record, also when the date changed while the session stayed open.
C21_PriorDayOfTheDay ==
  [][ (/\ last'.op = "CompleteDayFinish"
       /\ last'.ok
       /\ last'.before >= 1
       /\ streak' = last'.before + 1)
        => GetItem(Seen', KDay(day.date - 1)) # Absent
    ]_vars

\* C22: the streak is at most the number of distinct calendar dates on
\* which a completion succeeded: a second successful completion on the
\* same date does not raise it again.
C22_StreakCountsDays == streak <= Cardinality(doneDates)

\* The Day that exists for date D: the Day in memory if it is of that date,
\* otherwise the record stored (or being stored) under the key of D.
DayOf(D) ==
  IF day # NoDay /\ day.date = D THEN day
  ELSE IF GetItem(Seen, KDay(D)) # Absent THEN ParseDay(GetItem(Seen, KDay(D)))
  ELSE NoDay

\* C23: a Day is created once per calendar date: when a Day for the clock's
\* date exists in memory or in the store, a step of the startup effect or
\* of closing or saving the onboarding dialog that sets a Day of that date
\* sets the existing Day, never a newly created one.
C23_CreatedOnce ==
  [][ (/\ last'.op \in {"StartupOnb", "StartupDay", "OnCloseFinish"}
       /\ day' # NoDay /\ day'.date = today
       /\ DayOf(today) # NoDay)
        => day' = DayOf(today)
    ]_vars

\* C24: whenever a Profile and a Day are both loaded, the Day's targets are
\* the ones derived from that Profile: kcalTarget = tdeeFrom(profile),
\* waterTarget = waterTargetMl(profile), stepsGoal 6000 if sedentary else
\* 9000.
C24_TargetsFollowProfile ==
  Loaded =>
    /\ day.kcalTarget = tdeeFrom(onb)
    /\ day.waterTarget = waterTargetMl(onb)
    /\ day.stepsGoal = (IF onb.activity = "sedentary" THEN 6000 ELSE 9000)

\* The cook intervals of the mounted Kitchen screen that are scheduled.
CookTicks(ivs) == {i \in ivs : i.kind = "cook" /\ ~i.orphan}

\* C25: the cook-finished alert is raised only by a tick that takes a
\* positive remaining time to zero, one alert per tick, and the stop button
\* leaves no cook tick scheduled, so that no alert follows a stop.
C25_AlertOnlyAtZero ==
  [][ /\ alerts' # alerts =>
           /\ alerts' = alerts + 1
           /\ \E i \in sched \ sched' :
                /\ i.kind = "cook"
                /\ (IF i.orphan THEN i.t ELSE kitchen.timer) >= 1
      /\ tlast' = "StopCook" => CookTicks(sched') = {}
    ]_vars

\* What a tick does to the countdown of a screen: above 1 one second less,
\* otherwise 0 with the screen's interval cancelled.
TickedDown(scr, scr2, ivs2) ==
  /\ scr.timer > 1 => scr2.timer = scr.timer - 1
  /\ scr.timer <= 1 => (scr2.timer = 0 /\ ~\E i \in ivs2 : i.id = scr.ref)

\* C26: a start shows a duration that is not negative and schedules the
\* tick; a tick lowers a remaining time above 1 by exactly 1 and turns 1 or
\* less into 0 while cancelling the repeating tick; the remaining time is
\* never negative; and with the scheduled ticks firing every started
\* countdown ends: the ticks of a kind that are scheduled are eventually
\* all cancelled, a rest of 0 seconds included.
C26_CountdownEnds ==
  /\ [](gym.timer >= 0 /\ kitchen.timer >= 0)
  /\ [][ /\ tlast' = "StartRest" => \E i \in sched' : i.id = gym'.ref
         /\ tlast' = "StartCook" => \E i \in sched' : i.id = kitchen'.ref
         /\ tlast' = "TickRest" => TickedDown(gym, gym', sched')
         /\ tlast' = "TickCook" => TickedDown(kitchen, kitchen', sched')
       ]_vars
  /\ (Scheduled("rest") # {}) ~> (Scheduled("rest") = {})
  /\ (Scheduled("cook") # {}) ~> (Scheduled("cook") = {})

\* C27: initDay(profile) gives kcalTarget = tdeeFrom(profile), waterTarget =
\* waterTargetMl(profile), sleepPct 70, sittingHrs 7, steps 2500, stepsGoal
\* 6000 for a sedentary profile and 9000 for every other level, waterMl 0,
\* kcalConsumed 0, both flags false, and the 3 meals and 2 snacks generated
\* for that kcalTarget.
C27_InitDay ==
  calc.op = "initDay" =>
    LET o == calc.onb
        d == calc.out
        gen == generateMealsForDay(d.kcalTarget, o.goal, 1)
    IN  /\ d.kcalTarget = tdeeFrom(o)
        /\ d.waterTarget = waterTargetMl(o)
        /\ d.sleepPct = 70 /\ d.sittingHrs = 7 /\ d.steps = 2500
        /\ o.activity = "sedentary" => d.stepsGoal = 6000
        /\ o.activity \in Levels \ {"sedentary"} => d.stepsGoal = 9000
        /\ d.waterMl = 0 /\ d.kcalConsumed = 0
        /\ d.prayerDone = FALSE /\ d.workoutDone = FALSE
        /\ Len(d.meals) = 3 /\ Len(d.snacks) = 2
        /\ d.meals = gen.meals /\ d.snacks = gen.snacks

\* C27 witness: the Day of a sedentary profile has the step goal 6000 and
\* the targets 1855 kcal and 3150 ml.
C27_Witness ==
  /\ calc.op = "initDay"
  /\ calc.onb = [Defaults EXCEPT !.activity = "sedentary"]
  /\ calc.out.stepsGoal = 6000
  /\ calc.out.kcalTarget = 1855
  /\ calc.out.waterTarget = 3150

\* C28: for every Profile with positive age, height and weight the created
\* Day has kcalTarget >= 0 and each of its 5 meals has kcal >= 0.
C28_NonNegativeKcal ==
  (/\ calc.op = "initDay"
   /\ calc.onb.age > 0 /\ calc.onb.height > 0 /\ calc.onb.weight > 0)
    => /\ calc.out.kcalTarget >= 0
       /\ \A i \in 1..3 : calc.out.meals[i].kcal >= 0
       /\ \A i \in 1..2 : calc.out.snacks[i].kcal >= 0

\* C29: with mainPool = round(dayKcal * 0.75) and snackPool = dayKcal -
\* mainPool each of the 3 meals has round(mainPool / 3) kcal and each of
\* the 2 snacks round(snackPool / 2) kcal; the meals have equal kcal, the
\* snacks have equal kcal, and 3 * mealKcal and 2 * snackKcal are within 1
\* of their pools.
C29_MealSplit ==
  calc.op = "generateMealsForDay" =>
    LET mainPool == RoundDiv(3 * calc.n, 4)
        snackPool == calc.n - mainPool
        ms == calc.out.meals
        sn == calc.out.snacks
    IN  /\ Len(ms) = 3 /\ Len(sn) = 2
        /\ \A i \in 1..3 : 2 * 3 * ms[i].kcal - 2 * mainPool \in -2..3
                           /\ ms[i].kcal = ms[1].kcal
        /\ \A i \in 1..2 : 2 * sn[i].kcal - snackPool \in 0..1
                           /\ sn[i].kcal = sn[1].kcal
        /\ 3 * ms[1].kcal - mainPool \in -1..1
        /\ 2 * sn[1].kcal - snackPool \in -1..1

\* C29 witness: 2183 kcal split into a main pool of 1637 (three meals of
\* 546, one more than the pool) and a snack pool of 546 (two snacks of 273).
C29_Witness ==
  /\ calc.op = "generateMealsForDay"
  /\ calc.n = 2183
  /\ calc.out.meals[1].kcal = 546
  /\ calc.out.snacks[2].kcal = 273

\* C30: every Day record in the store under the key of a date D, and every
\* Day record on its way to the store under that key, has the date D.
C30_KeyLayout ==
  /\ \A D \in Dates :
       store.days[D] # Absent => ParseDay(store.days[D]).date = D
  /\ \A i \in DOMAIN inflight :
       (inflight[i].key \notin {KOnboarding, KStreak})
         => inflight[i].key = KDay(ParseDay(inflight[i].val).date)

\* C30 witness: on date 2 the store holds a record of date 1, with water
\* added in the session, under the key of date 1 and a record of date 2
\* under the key of date 2.
C30_Witness ==
  /\ today = 2
  /\ store.days[1] # Absent /\ store.days[2] # Absent
  /\ ParseDay(store.days[1]).date = 1
  /\ ParseDay(store.days[2]).date = 2
  /\ ParseDay(store.days[1]).waterMl > 3000

=============================================================================
